---- MODULE Spec2Model ----
(***************************************************************************)
(* spreadsheet-manager: a command-line client of a remote spreadsheet      *)
(* service.  The model follows one process per command invocation: the     *)
(* command handlers of internal/cli, authentication (internal/auth:        *)
(* GetClient, loadToken, requestTokenFromWeb, saveToken) with its callback *)
(* listener goroutine and handler goroutines, and main's exit.  The file   *)
(* system (credentials file, token file) outlives the process; everything  *)
(* else is rebuilt by every invocation.                                    *)
(*                                                                         *)
(* What the process writes is kept as text: stdout is a sequence of        *)
(* payloads/lines, stderr a sequence of lines, a line a sequence of        *)
(* fragments (format string pieces and their arguments), so that an error  *)
(* wrapped by fmt.Errorf keeps the text it wraps and a "\n" inside a       *)
(* message makes two lines.                                                *)
(*                                                                         *)
(* net/http, oauth2 and the generated API bindings are not part of the     *)
(* repository; they are modelled by their documented contracts at the      *)
(* places the repository calls them.  The command handlers pass            *)
(* context.Background(); GetClient takes any context, so a cancellable one *)
(* is covered by the Cancel action.                                        *)
(*                                                                         *)
(* The argument codecs of internal/helpers (A1ToGrid, ParseRange,          *)
(* ParseColor), readCSV and the payloads the handlers build from them are  *)
(* operators on texts, a text being the sequence of its characters.  They  *)
(* are exercised by a second specification, CodecSpec, which draws one     *)
(* argument at the start and applies one function or handler to it; Spec   *)
(* keeps the outcome of parsing as a flag of the command.  strconv,        *)
(* strings and encoding/csv are modelled by their documented behaviour.    *)
(***************************************************************************)
EXTENDS Integers, Sequences, FiniteSets, TLC

----------------------------------------------------------------------------
(* Bounds *)

\* redirect requests that reach the callback listener in one flow
MaxRequests == 3
\* command invocations (processes) in one behaviour
MaxInvocations == 2
\* characters of a cell or range text given to the A1 codec
MaxLen == 4
\* characters of a colour text, a leading '#' or two not counted
MaxColorLen == 6
\* records of a CSV file, and fields of a record
MaxRecords == 3
MaxFields == 2

----------------------------------------------------------------------------
(* Program constants *)

\* internal/auth/auth.go:23  TokenFileMode = 0600
TokenFileMode == 384
\* capacity of codeChan and errChan: make(chan ..., 1)
ChanCap == 1

Commands ==
    { "add-data", "add-note", "create", "create-sheet", "export-csv",
      "format-cells", "import-csv", "list-sheets", "rename-sheet", "style-cells" }

\* commands that parse a cell or range reference after the sheet lookup
RefCommands == { "add-note", "format-cells", "style-cells" }

\* commands whose request is Spreadsheets.BatchUpdate on a sheet found by title
BatchCommands == RefCommands \cup { "rename-sheet" }

\* The arguments that decide the control flow of a command.  A field that a
\* command does not read keeps its default, so every input is listed once.
DefaultInput(n) ==
    [ name |-> n, template |-> FALSE, folder |-> FALSE,
      jsonOk |-> TRUE, csvOk |-> TRUE, refOk |-> TRUE ]

Inputs ==
    { [ DefaultInput("create") EXCEPT !.template = t, !.folder = f ] :
          t \in BOOLEAN, f \in BOOLEAN }
    \cup { [ DefaultInput("add-data") EXCEPT !.jsonOk = j ] : j \in BOOLEAN }
    \cup { [ DefaultInput("import-csv") EXCEPT !.csvOk = c ] : c \in BOOLEAN }
    \cup { [ DefaultInput(n) EXCEPT !.refOk = r ] : n \in RefCommands, r \in BOOLEAN }
    \cup { DefaultInput(n) :
             n \in { "create-sheet", "export-csv", "list-sheets", "rename-sheet" } }

NoInput == DefaultInput("none")

----------------------------------------------------------------------------
(* Text *)

JSONPayload == "<json payload>"

\* requestTokenFromWeb, lines 129-131: Printf and Println on standard output
PromptLines ==
    << "Go to the following link in your browser:", "<authURL>", "",
       "Waiting for authentication..." >>

\* GetClient, line 38: the message holds a newline, so it is two lines
ErrCredRead ==
    << << "unable to read credentials file", "credentials.json", "<os error>" >>,
       << "See README.md for setup instructions" >> >>

ErrCredParse == << << "unable to parse credentials:", "<json error>" >> >>

ErrNoCode == << << "no authorization code in callback" >> >>

ErrListen == << << "failed to start server:", "<listen error>" >> >>

ErrCancelled == << << "authentication cancelled" >> >>

ErrExchange == << << "unable to retrieve token from web:", "<exchange error>" >> >>

ErrJSON == << << "invalid JSON values:", "<json error>" >> >>

ErrCSV == << << "unable to open CSV file:", "<os error>" >> >>

ErrCSVRead == << << "unable to read CSV:", "<csv error>" >> >>

ErrRef == << << "invalid cell reference:", "<cell>" >> >>

ErrSheetGet == << << "unable to retrieve spreadsheet:", "<remote error>" >> >>

ErrSheetNotFound == << << "sheet '", "<sheet-name>", "' not found" >> >>

ErrCSVCreate == << << "unable to create CSV file:", "<os error>" >> >>

ErrRemoteBare == << << "<remote error>" >> >>

LineSaving == << "Saving credentials to:", "token.json" >>

LineSaveWarning == << "Warning: unable to save token:", "<os error>" >>

\* runtime output of an unrecovered panic in the main goroutine
PanicTrace ==
    << << "panic: http: multiple registrations for /" >>, << >>,
       << "goroutine 1 [running]:" >> >>

\* fmt.Errorf(prefix + " %w", e) / Fprintf("prefix %v\n", e): the prefix goes
\* in front of the first line of e, the other lines of e follow
Wrap(prefix, e) == << << prefix >> \o Head(e) >> \o Tail(e)

\* the error text of the remote call that ends a command
RemoteErrPrefix(c) ==
    CASE c.name = "add-data"     -> "unable to update cells:"
      [] c.name = "import-csv"   -> "unable to import CSV:"
      [] c.name = "export-csv"   -> "unable to get sheet data:"
      [] c.name = "list-sheets"  -> "unable to get spreadsheet:"
      [] c.name = "create-sheet" -> "unable to create sheet:"
      [] c.name = "rename-sheet" -> "unable to rename sheet:"
      [] c.name = "add-note"     -> "unable to add note:"
      [] c.name = "format-cells" -> "unable to format cells:"
      [] c.name = "style-cells"  -> "unable to style cells:"
      [] c.name = "create" /\ c.template -> "unable to copy template:"
      [] OTHER                   -> "unable to create spreadsheet:"

ErrRemote(c) == Wrap(RemoteErrPrefix(c), ErrRemoteBare)

\* a fragment occurs in some line of a text
Mentions(text, frag) ==
    \E i \in 1..Len(text) : \E j \in 1..Len(text[i]) : text[i][j] = frag

----------------------------------------------------------------------------
(* What a command does once it holds an authenticated service *)

\* handlers that send their request before parsing the reference
BodyRequestFirst(c) ==
    CASE c.name = "add-data"     -> << "json", "remote" >>
      [] c.name = "export-csv"   -> << "remote", "writecsv" >>
      [] c.name = "rename-sheet" -> << "sheetid", "remote" >>
      [] c.name \in RefCommands  -> << "sheetid", "remote", "parse" >>
      [] c.name = "create" /\ ~c.template /\ c.folder -> << "remote", "move" >>
      [] OTHER                   -> << "remote" >>

\* The steps of a handler after its first GetSheetsService/GetClient call,
\* in the order of the code.
Body(c) ==
    CASE c.name = "add-data"     -> << "json", "remote" >>
      [] c.name = "import-csv"   -> << "remote" >>
      [] c.name = "export-csv"   -> << "remote", "writecsv" >>
      [] c.name = "list-sheets"  -> << "remote" >>
      [] c.name = "create-sheet" -> << "remote" >>
      [] c.name = "rename-sheet" -> << "sheetid", "remote" >>
      [] c.name \in RefCommands  -> << "sheetid", "parse", "remote" >>
      [] c.name = "create" /\ c.template -> << "remote" >>
      [] c.name = "create" /\ ~c.template /\ c.folder -> << "remote", "move" >>
      [] OTHER                   -> << "remote" >>

----------------------------------------------------------------------------
(* Texts: a text is the sequence of its characters *)

UpperLetters ==
    << "A", "B", "C", "D", "E", "F", "G", "H", "I", "J", "K", "L", "M",
       "N", "O", "P", "Q", "R", "S", "T", "U", "V", "W", "X", "Y", "Z" >>

DecimalDigits == << "0", "1", "2", "3", "4", "5", "6", "7", "8", "9" >>

\* position of a character in an alphabet, from 1
IndexIn(alphabet, c) == CHOOSE i \in 1..Len(alphabet) : alphabet[i] = c

\* cell[i] >= 'A' && cell[i] <= 'Z'
IsUpper(c) == \E i \in 1..Len(UpperLetters) : UpperLetters[i] = c

IsDigit(c) == \E i \in 1..Len(DecimalDigits) : DecimalDigits[i] = c

\* the letters counted from zero: int(cell[i]-'A')
LetterValueFromZero(c) == IndexIn(UpperLetters, c) - 1

\* int(cell[i]-'A'+1)
LetterValue(c) == IndexIn(UpperLetters, c)

DigitValue(c) == IndexIn(DecimalDigits, c) - 1

\* strconv: the digits of a number in the given base, most significant
\* first; the texts of the model are far shorter than what overflows an int
RECURSIVE Accumulate(_, _, _, _)
Accumulate(digits, base, value, n) ==
    IF digits = << >>
    THEN n
    ELSE Accumulate(Tail(digits), base, value, n * base + value[Head(digits)])

\* strconv.Atoi: an optional sign, then one decimal digit or more and
\* nothing else
Atoi(s) ==
    LET signed == Len(s) > 0 /\ s[1] \in { "+", "-" }
        digits == IF signed THEN Tail(s) ELSE s
        ok     == Len(digits) > 0 /\ \A k \in 1..Len(digits) : IsDigit(digits[k])
        n      == Accumulate(digits, 10, [ c \in { digits[k] : k \in 1..Len(digits) } |-> DigitValue(c) ], 0)
    IN  IF ~ok
        THEN [ err |-> TRUE, val |-> 0 ]
        ELSE [ err |-> FALSE, val |-> IF s[1] = "-" THEN 0 - n ELSE n ]

----------------------------------------------------------------------------
(* internal/helpers: A1 notation *)

\* the loop of A1ToGrid over the leading capital letters; i counts the
\* characters consumed
RECURSIVE ColumnLoop(_, _, _)
ColumnLoop(cell, i, col) ==
    IF i < Len(cell) /\ IsUpper(cell[i + 1])
    THEN ColumnLoop(cell, i + 1, col * 26 + LetterValue(cell[i + 1]))
    ELSE [ i |-> i, col |-> col ]

\* A1ToGrid that leaves the column and the row 1-indexed
A1ToGridOneBased(cell) ==
    LET run    == ColumnLoop(cell, 0, 0)
        rowNum == IF run.i < Len(cell)
                  THEN Atoi(SubSeq(cell, run.i + 1, Len(cell)))
                  ELSE [ err |-> FALSE, val |-> 0 ]
    IN  IF rowNum.err
        THEN [ col |-> 0, row |-> 0, err |-> TRUE ]
        ELSE [ col |-> run.col, row |-> rowNum.val, err |-> FALSE ]

\* A1ToGrid: column letters, then, only if something is left, the row
\* number; both are then made 0-indexed
A1ToGrid(cell) ==
    LET run    == ColumnLoop(cell, 0, 0)
        rowNum == IF run.i < Len(cell)
                  THEN Atoi(SubSeq(cell, run.i + 1, Len(cell)))
                  ELSE [ err |-> FALSE, val |-> 0 ]
    IN  IF rowNum.err
        THEN [ col |-> 0, row |-> 0, err |-> TRUE ]
        ELSE [ col |-> run.col - 1, row |-> rowNum.val - 1, err |-> FALSE ]

\* strings.Split(s, sep) for a one-character separator: every part
RECURSIVE Split(_, _)
Split(s, sep) ==
    IF \A k \in 1..Len(s) : s[k] # sep
    THEN << s >>
    ELSE LET k == CHOOSE j \in 1..Len(s) :
                      s[j] = sep /\ \A h \in 1..(j - 1) : s[h] # sep
         IN  << SubSeq(s, 1, k - 1) >> \o Split(SubSeq(s, k + 1, Len(s)), sep)

\* ParseRange: the first part is the start, the second the end when there
\* is one, the start again when there is none; parts after the second are
\* not looked at
ParseRange(rangeA1) ==
    LET parts == Split(rangeA1, ":")
        start == A1ToGrid(parts[1])
        end   == IF Len(parts) > 1 THEN A1ToGrid(parts[2]) ELSE start
    IN  IF start.err \/ end.err
        THEN [ startCol |-> 0, startRow |-> 0, endCol |-> 0, endRow |-> 0,
               err |-> TRUE ]
        ELSE [ startCol |-> start.col, startRow |-> start.row,
               endCol |-> end.col, endRow |-> end.row, err |-> FALSE ]

----------------------------------------------------------------------------
(* internal/helpers: colours *)

\* internal/helpers/color.go:11
HexColorLength == 6
\* internal/helpers/color.go:12
RGBMaxValue == 255

HexDigits ==
    << "0", "1", "2", "3", "4", "5", "6", "7", "8", "9",
       "a", "b", "c", "d", "e", "f" >>

UpperHexDigits == << "A", "B", "C", "D", "E", "F" >>

IsHexDigit(c) ==
    \/ \E i \in 1..Len(HexDigits) : HexDigits[i] = c
    \/ \E i \in 1..Len(UpperHexDigits) : UpperHexDigits[i] = c

HexValue(c) ==
    IF \E i \in 1..Len(UpperHexDigits) : UpperHexDigits[i] = c
    THEN IndexIn(UpperHexDigits, c) + 9
    ELSE IndexIn(HexDigits, c) - 1

\* strconv.ParseInt(s, 16, 64): an optional sign, then one hexadecimal
\* digit or more and nothing else
ParseInt16(s) ==
    LET signed == Len(s) > 0 /\ s[1] \in { "+", "-" }
        digits == IF signed THEN Tail(s) ELSE s
        ok     == Len(digits) > 0 /\ \A k \in 1..Len(digits) : IsHexDigit(digits[k])
        n      == Accumulate(digits, 16, [ c \in { digits[k] : k \in 1..Len(digits) } |-> HexValue(c) ], 0)
    IN  IF ~ok
        THEN [ err |-> TRUE, val |-> 0 ]
        ELSE [ err |-> FALSE, val |-> IF s[1] = "-" THEN 0 - n ELSE n ]

\* strings.TrimPrefix for a one-character prefix: at most one is removed
TrimPrefix(s, prefix) ==
    IF Len(s) > 0 /\ s[1] = prefix THEN Tail(s) ELSE s

\* a channel float64(n) / RGBMaxValue, kept as the fraction it is
Channel(n) == [ num |-> n, den |-> RGBMaxValue ]

\* ParseColor's nil
NilColor == [ nil |-> TRUE, red |-> Channel(0), green |-> Channel(0), blue |-> Channel(0) ]

ParseColor(hexColor) ==
    LET hex == TrimPrefix(hexColor, "#")
        r   == ParseInt16(SubSeq(hex, 1, 2))
        g   == ParseInt16(SubSeq(hex, 3, 4))
        b   == ParseInt16(SubSeq(hex, 5, 6))
    IN  IF Len(hex) # HexColorLength
        THEN NilColor
        ELSE IF r.err \/ g.err \/ b.err
             THEN NilColor
             ELSE [ nil |-> FALSE, red |-> Channel(r.val),
                    green |-> Channel(g.val), blue |-> Channel(b.val) ]

----------------------------------------------------------------------------
(* internal/cli: what the handlers build from their arguments *)

\* a GridRange whose end indices are the last row and column themselves
GridRangeClosed(startCol, startRow, endCol, endRow) ==
    [ StartRowIndex |-> startRow, EndRowIndex |-> endRow,
      StartColumnIndex |-> startCol, EndColumnIndex |-> endCol ]

\* the GridRange of runFormatCells, runStyleCells and runAddNote: the end
\* indices are one past the last row and column
GridRange(startCol, startRow, endCol, endRow) ==
    [ StartRowIndex |-> startRow, EndRowIndex |-> endRow + 1,
      StartColumnIndex |-> startCol, EndColumnIndex |-> endCol + 1 ]

\* buildCellFormat: the format and the field mask, from the flags
buildCellFormat(flags) ==
    LET withBg   == flags.bgColor # << >>
        withText == flags.fontColor # << >> \/ flags.fontSize > 0
                        \/ flags.bold \/ flags.italic
    IN  [ BackgroundColor |-> IF withBg THEN ParseColor(flags.bgColor) ELSE NilColor,
          TextFormat |->
              IF withText
              THEN [ nil |-> FALSE,
                     ForegroundColor |-> IF flags.fontColor # << >>
                                         THEN ParseColor(flags.fontColor)
                                         ELSE NilColor,
                     FontSize |-> IF flags.fontSize > 0 THEN flags.fontSize ELSE 0,
                     Bold |-> flags.bold,
                     Italic |-> flags.italic ]
              ELSE [ nil |-> TRUE, ForegroundColor |-> NilColor, FontSize |-> 0,
                     Bold |-> FALSE, Italic |-> FALSE ],
          fields |->
              (IF withBg THEN << "userEnteredFormat.backgroundColor" >> ELSE << >>)
              \o (IF withText THEN << "userEnteredFormat.textFormat" >> ELSE << >>) ]

\* internal/cli/constants.go:6-7
ValueInputModeFormula == "USER_ENTERED"

ValueInputModeRaw == "RAW"

\* an add-data that has no raw mode
ValueInputOptionAlwaysFormula(formulaMode) == ValueInputModeFormula

\* runAddData: the --formula flag (true unless given as false) chooses how
\* the remote reads the values
ValueInputOption(formulaMode) ==
    IF ~formulaMode THEN ValueInputModeRaw ELSE ValueInputModeFormula

\* encoding/csv, Reader.ReadAll with FieldsPerRecord = 0: every record
\* must have as many fields as the first one
ReadAll(records) ==
    IF \A i \in 1..Len(records) : Len(records[i]) = Len(records[1])
    THEN [ err |-> FALSE, records |-> records ]
    ELSE [ err |-> TRUE, records |-> << >> ]

\* readCSV that takes the first record for a header and leaves it out
readCSVSkipsFirst(file) ==
    LET read == IF file.opens THEN ReadAll(file.records)
                ELSE [ err |-> TRUE, records |-> << >> ]
    IN  IF read.err
        THEN [ err |-> TRUE, values |-> << >> ]
        ELSE [ err |-> FALSE,
               values |-> IF read.records = << >> THEN << >> ELSE Tail(read.records) ]

\* readCSV: os.Open, ReadAll, then the copy of every field into values
readCSV(file) ==
    LET read == IF file.opens THEN ReadAll(file.records)
                ELSE [ err |-> TRUE, records |-> << >> ]
    IN  IF read.err
        THEN [ err |-> TRUE, values |-> << >> ]
        ELSE [ err |-> FALSE,
               values |-> [ i \in 1..Len(read.records) |->
                              [ j \in 1..Len(read.records[i]) |-> read.records[i][j] ] ] ]

\* fmt.Sprintf("%v", cell): Values.Get with the default render option
\* returns every cell as its formatted text, and %v of a text is the text
Sprintf(cell) == cell

\* the file system and the disk under writeCSV: os.Create fails ("create"),
\* a Write that empties the full buffer into the file fails ("write"), the
\* deferred Flush fails ("flush"), or nothing fails ("ok")
IOOutcomes == { "ok", "create", "write", "flush" }

\* writeCSV: os.Create truncates the file; every row becomes one record of
\* formatted cells; the error of a Write is returned, the error of the
\* deferred Flush is not looked at.  kept is the number of records that
\* reached the file before the failure.
writeCSV(existing, data, io, kept) ==
    LET record(row) == [ i \in 1..Len(row) |-> Sprintf(row[i]) ]
        records     == [ i \in 1..Len(data) |-> record(data[i]) ]
        file(n)     == [ exists |-> TRUE, records |-> SubSeq(records, 1, n) ]
    IN  CASE io = "create" -> [ err |-> TRUE, file |-> existing ]
          [] io = "write"  -> [ err |-> TRUE, file |-> file(kept) ]
          [] io = "flush"  -> [ err |-> FALSE, file |-> file(kept) ]
          [] OTHER         -> [ err |-> FALSE, file |-> file(Len(data)) ]

----------------------------------------------------------------------------
(* The arguments the codecs and the payload builders are given *)

\* capital letters, a small letter, digits, a sign and the range separator
Alphabet == { "A", "Z", "a", "0", "1", "-", ":" }

\* the cells and ranges of the comments of A1ToGrid and ParseRange, a signed
\* row, a range that ends before it starts, a range of three parts
ExampleCells ==
    { << "B", "5" >>, << "A", "A", "1", "0" >>, << "C", "3" >>, << "A", "+", "5" >> }

ExampleRanges ==
    { << "A", "1", ":", "B", "1", "0" >>, << "C", "3" >>,
      << "B", "2", ":", "A", "1" >>, << "A", "1", ":", "B", "2", ":", "C", "3" >> }

\* hexadecimal digits of both cases and a sign
ColorAlphabet == { "0", "F", "f", "-" }

\* no '#', one, two
ColorPrefixes == { << >>, << "#" >>, << "#", "#" >> }

ExampleColors ==
    { << "#", "A", "B", "C" >>, << "+", "F", "0", "0", "0", "0" >>,
      << "G", "G", "0", "0", "0", "0" >>, << "#", "8", "0", "c", "0", "1", "9" >> }

\* the flags of style-cells; an empty text is a flag left out
StyleColors ==
    { << >>, << "#", "F", "F", "0", "0", "0", "0" >>,
      << "0", "0", "f", "f", "0", "0" >>, << "#", "A", "B", "C" >>,
      << "-", "F", "0", "0", "0", "0" >> }

StyleFlags ==
    [ bgColor : StyleColors, fontColor : StyleColors, fontSize : { 0, 12 },
      bold : BOOLEAN, italic : BOOLEAN ]

\* the records of a CSV file as encoding/csv splits them: a record has one
\* field at least (quoting is the library's)
CSVRecords == UNION { [ 1..n -> { "x", "y" } ] : n \in 1..MaxFields }

\* the rows Values.Get returns: a row has no cell when the sheet's row is
\* empty and rows with values follow it
SheetRows == CSVRecords \cup { << >> }

\* the output file before export-csv runs: absent, or left by an earlier run
NoOutputFile == [ exists |-> FALSE, records |-> << >> ]

OutputFiles == { NoOutputFile, [ exists |-> TRUE, records |-> << << "old" >> >> ] }

\* one argument: a text for a codec or for the handler that calls it (every
\* text of the alphabet up to MaxLen, every run of one to three capital
\* letters as the column of row 1, every colour text up to MaxColorLen),
\* the flags of style-cells, a CSV file (whether os.Open succeeds, and its
\* records)
IsArg(a) ==
    \/ \E n \in 0..MaxLen : \E t \in [ 1..n -> Alphabet ] :
          \E k \in { "A1ToGrid", "ParseRange", "add-note", "format-cells" } :
              a = [ kind |-> k, text |-> t ]
    \/ \E t \in ExampleCells : \E k \in { "A1ToGrid", "add-note" } :
          a = [ kind |-> k, text |-> t ]
    \/ \E t \in ExampleRanges : \E k \in { "ParseRange", "format-cells" } :
          a = [ kind |-> k, text |-> t ]
    \/ \E n \in 1..3 : \E run \in [ 1..n -> { UpperLetters[i] : i \in 1..Len(UpperLetters) } ] :
          a = [ kind |-> "column", text |-> run \o << "1" >> ]
    \/ \E n \in 0..MaxColorLen : \E b \in [ 1..n -> ColorAlphabet ] :
          \E prefix \in ColorPrefixes :
              a = [ kind |-> "ParseColor", text |-> prefix \o b ]
    \/ \E t \in ExampleColors : a = [ kind |-> "ParseColor", text |-> t ]
    \/ \E t \in ExampleRanges : \E f \in StyleFlags :
          a = [ kind |-> "style-cells", text |-> t, flags |-> f ]
    \/ \E n \in 0..MaxRecords : \E r \in [ 1..n -> CSVRecords ] :
          a = [ kind |-> "import-csv", file |-> [ opens |-> TRUE, records |-> r ] ]
    \/ a = [ kind |-> "import-csv", file |-> [ opens |-> FALSE, records |-> << >> ] ]
    \/ \E f, ok \in BOOLEAN : a = [ kind |-> "add-data", formula |-> f, jsonOk |-> ok ]
    \/ \E n \in 0..MaxRecords : \E rows \in [ 1..n -> SheetRows ] :
          \E existing \in OutputFiles :
              a = [ kind |-> "export-csv", rows |-> rows, existing |-> existing ]

NoArg == [ kind |-> "none" ]

NoRes == [ kind |-> "none" ]

----------------------------------------------------------------------------
(* State *)

VARIABLES
    \* the file system: it outlives the process
    credFile,      \* credentials.json: "ok", "missing" (ReadFile fails), "malformed"
    tokenFile,     \* token.json: [state, mode, tok]
    \* the user between two runs
    invocation,    \* number of the running (or last) invocation
    deleted,       \* the token file was deleted since the last process ended
    afterDelete,   \* this invocation started after such a deletion
    \* the main goroutine
    cmd,           \* the command and its arguments
    pc,            \* where the main goroutine stands
    body,          \* steps of the handler still to run
    call,          \* the GetClient call in progress: "service" or "move"
    token,         \* the token GetClient holds
    tokenSource,   \* where it came from: "none", "file", "web"
    client,        \* result of the latest GetClient call: "none", "ok"
    \* net/http
    mux,           \* DefaultServeMux has a handler for "/"
    srv,           \* goroutine of lines 123-127 and its listener
    inShutdown,    \* server.Shutdown was called
    codeChan,
    errChan,
    waitingCode,   \* handler goroutines at line 120, codeChan <- code
    waitingErr,    \* handler goroutines at line 104, errChan <- error
    arrived,       \* redirect requests accepted so far, in order: with a code or not
    ctxDone,       \* ctx.Done() is closed
    \* requestTokenFromWeb
    outcomes,      \* cases the select of line 134 has taken
    authErr,       \* the error the select branch returns
    authState,     \* position of the authorization flow
    \* what happened, for the properties
    exchangeCount, \* calls of config.Exchange
    flowRuns,      \* calls of requestTokenFromWeb
    flowDone,      \* requestTokenFromWeb has returned
    loads,         \* state of the token file at each loadToken
    tokenRead,     \* loadToken was called
    netCalls,      \* kinds of network activity so far: "listen", "exchange", "api",
                   \* and for an "api" call "lookup" (GetSheetID) or "batch"
    lastSave,      \* result of saveToken: "none", "ok", "failed"
    tokenAtStart,  \* the token file when the process started
    \* what the user sees
    stdout,
    stderr,
    exitCode,      \* -1 while running
    \* the argument codecs and the payload builders, taken on their own
    arg,           \* the text (or file, or flags) given
    res            \* what the function or the handler made of it

fsVars == << credFile, tokenFile >>
userVars == << invocation, deleted, afterDelete >>
mainVars == << cmd, pc, body, call, token, tokenSource, client >>
httpVars ==
    << mux, srv, inShutdown, codeChan, errChan, waitingCode, waitingErr, arrived,
       ctxDone >>
flowVars == << outcomes, authErr, authState >>
histVars ==
    << exchangeCount, flowRuns, flowDone, loads, tokenRead, netCalls, lastSave,
       tokenAtStart >>
ioVars == << stdout, stderr, exitCode >>
codecVars == << arg, res >>

vars ==
    << fsVars, userVars, mainVars, httpVars, flowVars, histVars, ioVars,
       codecVars >>

\* tokens: none, the one an earlier run left in the file, the one the
\* exchange of invocation n returned
NoTok == [ src |-> "none", run |-> 0 ]

OldTok == [ src |-> "file", run |-> 0 ]

WebTok(n) == [ src |-> "web", run |-> n ]

NoFile == [ state |-> "absent", mode |-> 0, tok |-> NoTok ]

\* permissions a token file found on disk may have: 0600, or 0644 when
\* something else than saveToken created it
FileModes == { TokenFileMode, 420 }

\* the token file as another run or the user may have left it
TokenFiles ==
    { NoFile }
    \cup { [ state |-> s, mode |-> m, tok |-> IF s = "valid" THEN OldTok ELSE NoTok ] :
             s \in { "valid", "invalid" }, m \in FileModes }

\* umask values of the process: none, 022, 077
Umasks == { 0, 18, 63 }

Running == pc \notin { "idle", "exited", "crashed" }

ProcessInit ==
    /\ credFile \in { "ok", "missing", "malformed" }
    /\ tokenFile \in TokenFiles
    /\ invocation = 0
    /\ deleted = FALSE
    /\ afterDelete = FALSE
    /\ cmd = NoInput
    /\ pc = "idle"
    /\ body = << >>
    /\ call = "service"
    /\ token = NoTok
    /\ tokenSource = "none"
    /\ client = "none"
    /\ mux = FALSE
    /\ srv = "none"
    /\ inShutdown = FALSE
    /\ codeChan = << >>
    /\ errChan = << >>
    /\ waitingCode = 0
    /\ waitingErr = 0
    /\ arrived = << >>
    /\ ctxDone = FALSE
    /\ outcomes = { }
    /\ authErr = << >>
    /\ authState = "Idle"
    /\ exchangeCount = 0
    /\ flowRuns = 0
    /\ flowDone = FALSE
    /\ loads = << >>
    /\ tokenRead = FALSE
    /\ netCalls = { }
    /\ lastSave = "none"
    /\ tokenAtStart = tokenFile
    /\ stdout = << >>
    /\ stderr = << >>
    /\ exitCode = -1

\* no argument is under study while the commands run
Init ==
    /\ ProcessInit
    /\ arg = NoArg
    /\ res = NoRes

----------------------------------------------------------------------------
(* The user *)

\* A command is run: a fresh process.  Nothing but the files is kept.
Invoke(c) ==
    /\ pc \in { "idle", "exited", "crashed" }
    /\ invocation < MaxInvocations
    /\ invocation' = invocation + 1
    /\ afterDelete' = deleted
    /\ deleted' = FALSE
    /\ cmd' = c
    /\ pc' = IF c.name = "import-csv" THEN "readcsv" ELSE "creds"
    /\ body' = Body(c)
    /\ call' = "service"
    /\ token' = NoTok
    /\ tokenSource' = "none"
    /\ client' = "none"
    /\ mux' = FALSE
    /\ srv' = "none"
    /\ inShutdown' = FALSE
    /\ codeChan' = << >>
    /\ errChan' = << >>
    /\ waitingCode' = 0
    /\ waitingErr' = 0
    /\ arrived' = << >>
    /\ ctxDone' = FALSE
    /\ outcomes' = { }
    /\ authErr' = << >>
    /\ authState' = "Idle"
    /\ exchangeCount' = 0
    /\ flowRuns' = 0
    /\ flowDone' = FALSE
    /\ loads' = << >>
    /\ tokenRead' = FALSE
    /\ netCalls' = { }
    /\ lastSave' = "none"
    /\ tokenAtStart' = tokenFile
    /\ stdout' = << >>
    /\ stderr' = << >>
    /\ exitCode' = -1
    /\ UNCHANGED << codecVars, fsVars >>

\* README, Troubleshooting: "Delete the token file", then run a command again
DeleteTokenFile ==
    /\ pc \in { "exited", "crashed" }
    /\ invocation < MaxInvocations
    /\ tokenFile.state # "absent"
    /\ tokenFile' = NoFile
    /\ deleted' = TRUE
    /\ UNCHANGED << codecVars, credFile, invocation, afterDelete, mainVars, httpVars, flowVars,
                    histVars, ioVars >>

----------------------------------------------------------------------------
(* Returning an error *)

\* main: Fprintln(os.Stderr, err); os.Exit(1)
MainFail(e) ==
    /\ stderr' = stderr \o e
    /\ exitCode' = 1
    /\ pc' = "exited"

\* GetClient returns an error.  runX returns it to main; createNew, whose
\* moveToFolder made the call, prints a warning and goes on to PrintJSON.
ReturnErr(e) ==
    IF call = "move"
    THEN /\ stderr' = stderr \o Wrap("Warning: unable to move to folder:", e)
         /\ exitCode' = exitCode
         /\ pc' = "body"
    ELSE MainFail(e)

\* where a successful GetClient returns to
ReturnPc == IF call = "move" THEN "moveupd" ELSE "body"

----------------------------------------------------------------------------
(* internal/auth: GetClient *)

\* import-csv that asks for a service whether or not the file could be read
ReadCSVDeferred ==
    /\ pc = "readcsv"
    /\ pc' = "creds"
    /\ UNCHANGED << stderr, exitCode >>
    /\ UNCHANGED << codecVars, fsVars, userVars, cmd, body, call, token, tokenSource, client,
                    httpVars, flowVars, histVars, stdout >>

\* import-csv reads the CSV file before it asks for a service
ReadCSV ==
    /\ pc = "readcsv"
    /\ IF cmd.csvOk
       THEN pc' = "creds" /\ UNCHANGED << stderr, exitCode >>
       ELSE MainFail(ErrCSV) \/ MainFail(ErrCSVRead)
    /\ UNCHANGED << codecVars, fsVars, userVars, cmd, body, call, token, tokenSource, client,
                    httpVars, flowVars, histVars, stdout >>

\* GetClient whose ReadFile error lacks the line of guidance
ReadCredentialsNoGuidance ==
    /\ pc = "creds"
    /\ client' = "none"
    /\ tokenSource' = "none"
    /\ authState' = "Idle"
    /\ CASE credFile = "missing"   -> ReturnErr(<< Head(ErrCredRead) >>)
         [] credFile = "malformed" -> ReturnErr(ErrCredParse)
         [] OTHER -> pc' = "loadtoken" /\ UNCHANGED << stderr, exitCode >>
    /\ UNCHANGED << codecVars, fsVars, userVars, cmd, body, call, token, httpVars, outcomes,
                    authErr, histVars, stdout >>

\* GetClient, lines 33-44: os.ReadFile and google.ConfigFromJSON
ReadCredentials ==
    /\ pc = "creds"
    /\ client' = "none"
    /\ tokenSource' = "none"
    /\ authState' = "Idle"
    /\ CASE credFile = "missing"   -> ReturnErr(ErrCredRead)
         [] credFile = "malformed" -> ReturnErr(ErrCredParse)
         [] OTHER -> pc' = "loadtoken" /\ UNCHANGED << stderr, exitCode >>
    /\ UNCHANGED << codecVars, fsVars, userVars, cmd, body, call, token, httpVars, outcomes,
                    authErr, histVars, stdout >>

\* loadToken without the decoder's error: any file that opens is a token
LoadOkIgnoresDecode(f) == f.state # "absent"

\* loadToken, lines 83-93: os.Open and the JSON decoder both succeed
LoadOk(f) == f.state = "valid"

\* GetClient, lines 46-48: loadToken, and requestTokenFromWeb when it fails
LoadToken ==
    /\ pc = "loadtoken"
    /\ tokenRead' = TRUE
    /\ loads' = Append(loads, tokenFile.state)
    /\ IF LoadOk(tokenFile)
       THEN /\ token' = tokenFile.tok
            /\ tokenSource' = "file"
            /\ client' = "ok"
            /\ pc' = ReturnPc
            /\ UNCHANGED << flowRuns, authState >>
       ELSE /\ flowRuns' = flowRuns + 1
            /\ authState' = "NoToken"
            /\ pc' = "startflow"
            /\ UNCHANGED << token, tokenSource, client >>
    /\ UNCHANGED << codecVars, fsVars, userVars, cmd, body, call, httpVars, outcomes, authErr,
                    exchangeCount, flowDone, netCalls, lastSave, tokenAtStart,
                    ioVars >>

----------------------------------------------------------------------------
(* internal/auth: requestTokenFromWeb *)

\* Lines 96-131: the channels and the server are made, the handler is
\* registered on the process-wide DefaultServeMux, the server goroutine is
\* started and the prompt is printed.  http.HandleFunc panics when the
\* pattern "/" is registered already.
StartFlow ==
    /\ pc = "startflow"
    /\ IF mux
       THEN /\ pc' = "crashed"
            /\ exitCode' = 2
            /\ stderr' = stderr \o PanicTrace
            /\ UNCHANGED << mux, srv, inShutdown, codeChan, errChan, authState,
                            stdout >>
       ELSE /\ mux' = TRUE
            /\ srv' = "spawned"
            /\ inShutdown' = FALSE
            /\ codeChan' = << >>
            /\ errChan' = << >>
            /\ stdout' = stdout \o PromptLines
            /\ authState' = "AwaitingUserAuthorization"
            /\ pc' = "select"
            /\ UNCHANGED << stderr, exitCode >>
    /\ UNCHANGED << codecVars, fsVars, userVars, cmd, body, call, token, tokenSource, client,
                    waitingCode, waitingErr, arrived, ctxDone, outcomes, authErr,
                    histVars >>

\* Lines 123-127, server.ListenAndServe in its goroutine: ErrServerClosed
\* once Shutdown was called, else the port is bound or the bind fails
ListenAndServe ==
    /\ Running
    /\ srv = "spawned"
    /\ IF inShutdown
       THEN srv' = "closed" /\ UNCHANGED netCalls
       ELSE \/ srv' = "listening" /\ netCalls' = netCalls \cup { "listen" }
            \/ srv' = "sendErr" /\ UNCHANGED netCalls
    /\ UNCHANGED << codecVars, fsVars, userVars, mainVars, mux, inShutdown, codeChan, errChan,
                    waitingCode, waitingErr, arrived, ctxDone, flowVars,
                    exchangeCount, flowRuns, flowDone, loads, tokenRead, lastSave,
                    tokenAtStart, ioVars >>

\* a server goroutine that reports its failure on the channel of the codes
ServerSendErrAsCode ==
    /\ Running
    /\ srv = "sendErr"
    /\ Len(codeChan) < ChanCap
    /\ codeChan' = Append(codeChan, "<code>")
    /\ srv' = "failed"
    /\ UNCHANGED << codecVars, fsVars, userVars, mainVars, mux, inShutdown, errChan,
                    waitingCode, waitingErr, arrived, ctxDone, flowVars, histVars,
                    ioVars >>

\* Line 125: errChan <- "failed to start server"
ServerSendErr ==
    /\ Running
    /\ srv = "sendErr"
    /\ Len(errChan) < ChanCap
    /\ errChan' = Append(errChan, ErrListen)
    /\ srv' = "failed"
    /\ UNCHANGED << codecVars, fsVars, userVars, mainVars, mux, inShutdown, codeChan,
                    waitingCode, waitingErr, arrived, ctxDone, flowVars, histVars,
                    ioVars >>

\* A redirect reaches the listener: net/http runs the handler of lines
\* 101-121 in a goroutine of its own, up to its channel send.
CallbackArrives(hasCode) ==
    /\ Running
    /\ srv = "listening"
    /\ Len(arrived) < MaxRequests
    /\ arrived' = Append(arrived, hasCode)
    /\ IF hasCode
       THEN waitingCode' = waitingCode + 1 /\ UNCHANGED waitingErr
       ELSE waitingErr' = waitingErr + 1 /\ UNCHANGED waitingCode
    /\ UNCHANGED << codecVars, fsVars, userVars, mainVars, mux, srv, inShutdown, codeChan,
                    errChan, ctxDone, flowVars, histVars, ioVars >>

\* Line 120: codeChan <- code, then the handler returns
HandlerSendCode ==
    /\ Running
    /\ waitingCode > 0
    /\ Len(codeChan) < ChanCap
    /\ codeChan' = Append(codeChan, "<code>")
    /\ waitingCode' = waitingCode - 1
    /\ UNCHANGED << codecVars, fsVars, userVars, mainVars, mux, srv, inShutdown, errChan,
                    waitingErr, arrived, ctxDone, flowVars, histVars, ioVars >>

\* Lines 104-106: errChan <- error, then the handler answers 400 and returns
HandlerSendErr ==
    /\ Running
    /\ waitingErr > 0
    /\ Len(errChan) < ChanCap
    /\ errChan' = Append(errChan, ErrNoCode)
    /\ waitingErr' = waitingErr - 1
    /\ UNCHANGED << codecVars, fsVars, userVars, mainVars, mux, srv, inShutdown, codeChan,
                    waitingCode, arrived, ctxDone, flowVars, histVars, ioVars >>

\* The context given to GetClient is cancelled while the flow runs
Cancel ==
    /\ pc \in { "select", "shutdown", "shutwait", "exchange" }
    /\ ~ctxDone
    /\ ctxDone' = TRUE
    /\ UNCHANGED << codecVars, fsVars, userVars, mainVars, mux, srv, inShutdown, codeChan,
                    errChan, waitingCode, waitingErr, arrived, flowVars, histVars,
                    ioVars >>

\* Lines 133-142, the select: one ready case is taken
Select ==
    /\ pc = "select"
    /\ \/ /\ codeChan # << >>
          /\ codeChan' = Tail(codeChan)
          /\ outcomes' = outcomes \cup { "code" }
          /\ authState' = "CodeReceived"
          /\ UNCHANGED << errChan, authErr >>
       \/ /\ errChan # << >>
          /\ errChan' = Tail(errChan)
          /\ authErr' = Head(errChan)
          /\ outcomes' = outcomes \cup { "error" }
          /\ authState' = "Failed"
          /\ UNCHANGED codeChan
       \/ /\ ctxDone
          /\ authErr' = ErrCancelled
          /\ outcomes' = outcomes \cup { "cancelled" }
          /\ authState' = "Cancelled"
          /\ UNCHANGED << codeChan, errChan >>
    /\ pc' = "shutdown"
    /\ UNCHANGED << codecVars, fsVars, userVars, cmd, body, call, token, tokenSource, client,
                    mux, srv, inShutdown, waitingCode, waitingErr, arrived, ctxDone,
                    histVars, ioVars >>

\* http.Server.Shutdown closes the open listeners first
CloseListeners(s) == IF s = "listening" THEN "closed" ELSE s

\* a branch of the select that returns without server.Shutdown
ShutdownSkipped ==
    /\ pc = "shutdown"
    /\ pc' = "shutwait"
    /\ UNCHANGED << codecVars, fsVars, userVars, cmd, body, call, token, tokenSource, client,
                    httpVars, flowVars, histVars, ioVars >>

\* Lines 137, 140, 144: server.Shutdown(ctx) is called in every branch
Shutdown ==
    /\ pc = "shutdown"
    /\ inShutdown' = TRUE
    /\ srv' = CloseListeners(srv)
    /\ pc' = "shutwait"
    /\ UNCHANGED << codecVars, fsVars, userVars, cmd, body, call, token, tokenSource, client,
                    mux, codeChan, errChan, waitingCode, waitingErr, arrived,
                    ctxDone, flowVars, histVars, ioVars >>

\* a select whose error and cancellation cases lack their return
ExchangeFollowsAlways(taken) == TRUE

\* Lines 134-146: only the codeChan case goes on to config.Exchange, the two
\* others return
ExchangeFollows(taken) == taken = { "code" }

\* server.Shutdown returns once no connection is busy with a handler, or ctx
\* is done; then the error cases return and the code case goes on
ShutdownReturns ==
    /\ pc = "shutwait"
    /\ waitingCode + waitingErr = 0 \/ ctxDone
    /\ IF ExchangeFollows(outcomes)
       THEN /\ pc' = "exchange"
            /\ UNCHANGED << flowDone, stderr, exitCode >>
       ELSE /\ flowDone' = TRUE
            /\ ReturnErr(authErr)
    /\ UNCHANGED << codecVars, fsVars, userVars, cmd, body, call, token, tokenSource, client,
                    httpVars, flowVars, exchangeCount, flowRuns, loads, tokenRead,
                    netCalls, lastSave, tokenAtStart, stdout >>

\* an Exchange that, on failure, waits for another code instead of returning
ExchangeRetries ==
    /\ pc = "exchange"
    /\ exchangeCount' = exchangeCount + 1
    /\ netCalls' = netCalls \cup { "exchange" }
    /\ \/ /\ ~ctxDone
          /\ token' = WebTok(invocation)
          /\ tokenSource' = "web"
          /\ authState' = "TokenExchanged"
          /\ flowDone' = TRUE
          /\ pc' = "save"
       \/ /\ authState' = "AwaitingUserAuthorization"
          /\ pc' = "select"
          /\ UNCHANGED << token, tokenSource, flowDone >>
    /\ UNCHANGED << codecVars, fsVars, userVars, cmd, body, call, client, httpVars, outcomes,
                    authErr, flowRuns, loads, tokenRead, lastSave, tokenAtStart,
                    ioVars >>

\* an Exchange whose error is not returned: GetClient goes on to saveToken
ExchangeSavesOnFailure ==
    /\ pc = "exchange"
    /\ exchangeCount' = exchangeCount + 1
    /\ netCalls' = netCalls \cup { "exchange" }
    /\ flowDone' = TRUE
    /\ \/ /\ ~ctxDone
          /\ token' = WebTok(invocation)
          /\ tokenSource' = "web"
          /\ authState' = "TokenExchanged"
       \/ /\ authState' = "Failed"
          /\ UNCHANGED << token, tokenSource >>
    /\ pc' = "save"
    /\ UNCHANGED << codecVars, fsVars, userVars, cmd, body, call, client, httpVars, outcomes,
                    authErr, flowRuns, loads, tokenRead, lastSave, tokenAtStart,
                    ioVars >>

\* Lines 146-151: config.Exchange; a done context makes it fail
Exchange ==
    /\ pc = "exchange"
    /\ exchangeCount' = exchangeCount + 1
    /\ netCalls' = netCalls \cup { "exchange" }
    /\ flowDone' = TRUE
    /\ \/ /\ ~ctxDone
          /\ token' = WebTok(invocation)
          /\ tokenSource' = "web"
          /\ authState' = "TokenExchanged"
          /\ pc' = "save"
          /\ UNCHANGED << stderr, exitCode >>
       \/ /\ authState' = "Failed"
          /\ ReturnErr(ErrExchange)
          /\ UNCHANGED << token, tokenSource >>
    /\ UNCHANGED << codecVars, fsVars, userVars, cmd, body, call, client, httpVars, outcomes,
                    authErr, flowRuns, loads, tokenRead, lastSave, tokenAtStart,
                    stdout >>

----------------------------------------------------------------------------
(* internal/auth: saveToken *)

\* the bits of a that are not set in b
RECURSIVE AndNot(_, _)
AndNot(a, b) ==
    IF a = 0
    THEN 0
    ELSE (IF a % 2 = 1 /\ b % 2 = 0 THEN 1 ELSE 0) + 2 * AndNot(a \div 2, b \div 2)

\* os.OpenFile(path, O_RDWR|O_CREATE|O_TRUNC, perm): perm (less the umask) is
\* given to a file that is created; a file that exists keeps its mode
OpenFileMode(f, perm, umask) ==
    IF f.state = "absent" THEN AndNot(perm, umask) ELSE f.mode

\* Lines 154-168, called at line 52 of GetClient, which turns an error into a
\* warning and returns the client all the same.
SaveToken ==
    /\ pc = "save"
    /\ \E umask \in Umasks :
         \/ \* MkdirAll or OpenFile fails: the file is as it was
            /\ lastSave' = "failed"
            /\ UNCHANGED tokenFile
         \/ \* the file is opened and truncated, Encode fails
            /\ lastSave' = "failed"
            /\ tokenFile' = [ state |-> "invalid", tok |-> NoTok,
                              mode |-> OpenFileMode(tokenFile, TokenFileMode, umask) ]
         \/ /\ lastSave' = "ok"
            /\ tokenFile' = [ state |-> "valid", tok |-> token,
                              mode |-> OpenFileMode(tokenFile, TokenFileMode, umask) ]
    /\ stderr' = stderr \o << LineSaving >>
                   \o (IF lastSave' = "ok" THEN << >> ELSE << LineSaveWarning >>)
    /\ client' = "ok"
    /\ pc' = ReturnPc
    /\ UNCHANGED << codecVars, credFile, userVars, cmd, body, call, token, tokenSource,
                    httpVars, flowVars, exchangeCount, flowRuns, flowDone, loads,
                    tokenRead, netCalls, tokenAtStart, stdout, exitCode >>

----------------------------------------------------------------------------
(* internal/cli: the handlers after authentication *)

AtStep(kind) == pc = "body" /\ body # << >> /\ Head(body) = kind

\* runAddData, lines 40-43 of data.go: json.Unmarshal of the values argument
ParseValuesJSON ==
    /\ AtStep("json")
    /\ IF cmd.jsonOk
       THEN body' = Tail(body) /\ UNCHANGED << pc, stderr, exitCode >>
       ELSE MainFail(ErrJSON) /\ UNCHANGED body
    /\ UNCHANGED << codecVars, fsVars, userVars, cmd, call, token, tokenSource, client,
                    httpVars, flowVars, histVars, stdout >>

\* helpers.GetSheetID: the spreadsheet is fetched and the title looked up
GetSheetID ==
    /\ AtStep("sheetid")
    /\ netCalls' = netCalls \cup { "api", "lookup" }
    /\ \/ body' = Tail(body) /\ UNCHANGED << pc, stderr, exitCode >>
       \/ MainFail(ErrSheetGet) /\ UNCHANGED body
       \/ MainFail(ErrSheetNotFound) /\ UNCHANGED body
    /\ UNCHANGED << codecVars, fsVars, userVars, cmd, call, token, tokenSource, client,
                    httpVars, flowVars, exchangeCount, flowRuns, flowDone, loads,
                    tokenRead, lastSave, tokenAtStart, stdout >>

\* helpers.ParseRange / helpers.A1ToGrid on the range or cell argument
ParseReference ==
    /\ AtStep("parse")
    /\ IF cmd.refOk
       THEN body' = Tail(body) /\ UNCHANGED << pc, stderr, exitCode >>
       ELSE MainFail(ErrRef) /\ UNCHANGED body
    /\ UNCHANGED << codecVars, fsVars, userVars, cmd, call, token, tokenSource, client,
                    httpVars, flowVars, histVars, stdout >>

\* the request of the command: Values.Update, Values.Get, Spreadsheets.Get,
\* Spreadsheets.Create, Files.Copy or BatchUpdate, followed by .Do()
RemoteCall ==
    /\ AtStep("remote")
    /\ netCalls' = netCalls \cup
           (IF cmd.name \in BatchCommands THEN { "api", "batch" } ELSE { "api" })
    /\ \/ body' = Tail(body) /\ UNCHANGED << pc, stderr, exitCode >>
       \/ MainFail(ErrRemote(cmd)) /\ UNCHANGED body
    /\ UNCHANGED << codecVars, fsVars, userVars, cmd, call, token, tokenSource, client,
                    httpVars, flowVars, exchangeCount, flowRuns, flowDone, loads,
                    tokenRead, lastSave, tokenAtStart, stdout >>

\* runExportCSV, lines 210-212: writeCSV
WriteCSV ==
    /\ AtStep("writecsv")
    /\ \/ body' = Tail(body) /\ UNCHANGED << pc, stderr, exitCode >>
       \/ MainFail(ErrCSVCreate) /\ UNCHANGED body
    /\ UNCHANGED << codecVars, fsVars, userVars, cmd, call, token, tokenSource, client,
                    httpVars, flowVars, histVars, stdout >>

\* createNew, lines 98-99, and moveToFolder, line 111: a second GetClient
MoveToFolder ==
    /\ AtStep("move")
    /\ body' = Tail(body)
    /\ call' = "move"
    /\ pc' = "creds"
    /\ UNCHANGED << codecVars, fsVars, userVars, cmd, token, tokenSource, client, httpVars,
                    flowVars, histVars, ioVars >>

\* moveToFolder, lines 116-122, Files.Update; createNew, lines 99-101, turns
\* its error into a warning
MoveUpdate ==
    /\ pc = "moveupd"
    /\ netCalls' = netCalls \cup { "api" }
    /\ \/ UNCHANGED stderr
       \/ stderr' = stderr \o Wrap("Warning: unable to move to folder:", ErrRemoteBare)
    /\ pc' = "body"
    /\ UNCHANGED << codecVars, fsVars, userVars, cmd, body, call, token, tokenSource, client,
                    httpVars, flowVars, exchangeCount, flowRuns, flowDone, loads,
                    tokenRead, lastSave, tokenAtStart, stdout, exitCode >>

\* helpers.PrintJSON at the end of every handler, then main returns
PrintJSON ==
    /\ pc = "body"
    /\ body = << >>
    /\ stdout' = Append(stdout, JSONPayload)
    /\ exitCode' = 0
    /\ pc' = "exited"
    /\ UNCHANGED << codecVars, fsVars, userVars, cmd, body, call, token, tokenSource, client,
                    httpVars, flowVars, histVars, stderr >>

----------------------------------------------------------------------------

Next ==
    \/ \E c \in Inputs : Invoke(c)
    \/ DeleteTokenFile
    \/ ReadCSV
    \/ ReadCredentials
    \/ LoadToken
    \/ StartFlow
    \/ ListenAndServe
    \/ ServerSendErr
    \/ \E hasCode \in BOOLEAN : CallbackArrives(hasCode)
    \/ HandlerSendCode
    \/ HandlerSendErr
    \/ Cancel
    \/ Select
    \/ Shutdown
    \/ ShutdownReturns
    \/ Exchange
    \/ SaveToken
    \/ ParseValuesJSON
    \/ GetSheetID
    \/ ParseReference
    \/ RemoteCall
    \/ WriteCSV
    \/ MoveToFolder
    \/ MoveUpdate
    \/ PrintJSON

Spec == Init /\ [][Next]_vars

\* What the Go scheduler and net/http guarantee: a goroutine that can take
\* its next step takes it.  This holds for the main goroutine inside
\* requestTokenFromWeb (select, Shutdown and its return, Exchange), for the
\* server goroutine and for the handler goroutines at their channel sends.
\* Nothing is assumed of the user (redirects, cancellation, new commands).
Fairness ==
    /\ WF_vars(Select)
    /\ WF_vars(Shutdown)
    /\ WF_vars(ShutdownReturns)
    /\ WF_vars(Exchange)
    /\ WF_vars(ListenAndServe)
    /\ WF_vars(ServerSendErr)
    /\ WF_vars(HandlerSendCode)
    /\ WF_vars(HandlerSendErr)

LiveSpec == Init /\ [][Next]_vars /\ Fairness

----------------------------------------------------------------------------
(* The codecs and the payload builders on their own: one argument, drawn   *)
(* at the start, and the function or the handler applied to it.  For a     *)
(* handler the step starts where it holds the service and the sheet id     *)
(* (the steps before are those of Spec) and ends with its return.          *)

processVars ==
    << fsVars, userVars, mainVars, httpVars, flowVars, histVars, ioVars >>

CodecInit ==
    /\ ProcessInit
    /\ credFile = "ok"
    /\ tokenFile = NoFile
    /\ IsArg(arg)
    /\ res = NoRes

\* what a handler leaves behind: the error it returns, the requests it
\* sent, the JSON it printed
Returned(kind, err, requests, printed) ==
    [ kind |-> kind, err |-> err, requests |-> requests, printed |-> printed ]

CallA1ToGrid ==
    /\ arg.kind \in { "A1ToGrid", "column" }
    /\ res.kind = "none"
    /\ res' = [ kind |-> "A1ToGrid", out |-> A1ToGrid(arg.text) ]
    /\ UNCHANGED << arg, processVars >>

CallParseRange ==
    /\ arg.kind = "ParseRange"
    /\ res.kind = "none"
    /\ res' = [ kind |-> "ParseRange", out |-> ParseRange(arg.text) ]
    /\ UNCHANGED << arg, processVars >>

CallParseColor ==
    /\ arg.kind = "ParseColor"
    /\ res.kind = "none"
    /\ res' = [ kind |-> "ParseColor", out |-> ParseColor(arg.text) ]
    /\ UNCHANGED << arg, processVars >>

\* runAddNote from A1ToGrid on; the remote accepts the batch update or not
AddNote(accepted) ==
    /\ arg.kind = "add-note"
    /\ res.kind = "none"
    /\ LET cell == A1ToGrid(arg.text)
           req  == [ Range |-> GridRange(cell.col, cell.row, cell.col, cell.row),
                     Fields |-> << "note" >> ]
       IN  res' = IF cell.err
                  THEN Returned("add-note", TRUE, << >>, << >>)
                  ELSE IF ~accepted
                       THEN Returned("add-note", TRUE, << req >>, << >>)
                       ELSE Returned("add-note", FALSE, << req >>,
                                     << [ status |-> "success", cell |-> arg.text ] >>)
    /\ UNCHANGED << arg, processVars >>

\* runFormatCells from ParseRange on
FormatCells(accepted) ==
    /\ arg.kind = "format-cells"
    /\ res.kind = "none"
    /\ LET r   == ParseRange(arg.text)
           req == [ Range |-> GridRange(r.startCol, r.startRow, r.endCol, r.endRow),
                    Fields |-> << "userEnteredFormat.numberFormat" >> ]
       IN  res' = IF r.err
                  THEN Returned("format-cells", TRUE, << >>, << >>)
                  ELSE IF ~accepted
                       THEN Returned("format-cells", TRUE, << req >>, << >>)
                       ELSE Returned("format-cells", FALSE, << req >>,
                                     << [ status |-> "success" ] >>)
    /\ UNCHANGED << arg, processVars >>

\* runStyleCells from ParseRange on
StyleCells(accepted) ==
    /\ arg.kind = "style-cells"
    /\ res.kind = "none"
    /\ LET r      == ParseRange(arg.text)
           format == buildCellFormat(arg.flags)
           req    == [ Range |-> GridRange(r.startCol, r.startRow, r.endCol, r.endRow),
                       UserEnteredFormat |-> format,
                       Fields |-> format.fields ]
       IN  res' = IF r.err
                  THEN Returned("style-cells", TRUE, << >>, << >>)
                  ELSE IF ~accepted
                       THEN Returned("style-cells", TRUE, << req >>, << >>)
                       ELSE Returned("style-cells", FALSE, << req >>,
                                     << [ status |-> "success" ] >>)
    /\ UNCHANGED << arg, processVars >>

\* runAddData from json.Unmarshal on: the values of the README's example
AddData(accepted) ==
    /\ arg.kind = "add-data"
    /\ res.kind = "none"
    /\ LET req == [ Values |-> << << "=SUM(1,2)" >> >>,
                    ValueInputOption |-> ValueInputOption(arg.formula) ]
       IN  res' = IF ~arg.jsonOk
                  THEN Returned("add-data", TRUE, << >>, << >>)
                  ELSE IF ~accepted
                       THEN Returned("add-data", TRUE, << req >>, << >>)
                       ELSE Returned("add-data", FALSE, << req >>,
                                     << [ status |-> "success" ] >>)
    /\ UNCHANGED << arg, processVars >>

\* runImportCSV: readCSV, then GetSheetsService, then the update of the
\* values, then the JSON with the number of rows
ImportCSV(authorized, accepted) ==
    /\ arg.kind = "import-csv"
    /\ res.kind = "none"
    /\ LET read == readCSV(arg.file)
           req  == [ Values |-> read.values,
                     ValueInputOption |-> ValueInputModeFormula ]
           ret(err, authCalled, requests, printed) ==
               [ kind |-> "import-csv", err |-> err, authCalled |-> authCalled,
                 requests |-> requests, printed |-> printed ]
       IN  res' = IF read.err
                  THEN ret(TRUE, FALSE, << >>, << >>)
                  ELSE IF ~authorized
                       THEN ret(TRUE, TRUE, << >>, << >>)
                       ELSE IF ~accepted
                            THEN ret(TRUE, TRUE, << req >>, << >>)
                            ELSE ret(FALSE, TRUE, << req >>,
                                     << [ status |-> "success",
                                          rows |-> Len(read.values) ] >>)
    /\ UNCHANGED << arg, processVars >>

\* runExportCSV: GetSheetsService, Values.Get, writeCSV, then the JSON
ExportCSV(authorized, accepted, io, kept) ==
    /\ arg.kind = "export-csv"
    /\ res.kind = "none"
    /\ io \in { "write", "flush" } => kept < Len(arg.rows)
    /\ io \in { "ok", "create" } => kept = 0
    /\ LET written == writeCSV(arg.existing, arg.rows, io, kept)
           ret(err, requests, file, printed) ==
               [ kind |-> "export-csv", err |-> err, authorized |-> authorized,
                 requests |-> requests, file |-> file, printed |-> printed ]
       IN  res' = IF ~authorized
                  THEN ret(TRUE, << >>, arg.existing, << >>)
                  ELSE IF ~accepted
                       THEN ret(TRUE, << "Values.Get" >>, arg.existing, << >>)
                       ELSE IF written.err
                            THEN ret(TRUE, << "Values.Get" >>, written.file, << >>)
                            ELSE ret(FALSE, << "Values.Get" >>, written.file,
                                     << [ status |-> "success" ] >>)
    /\ UNCHANGED << arg, processVars >>

CodecNext ==
    \/ CallA1ToGrid
    \/ CallParseRange
    \/ CallParseColor
    \/ \E accepted \in BOOLEAN : AddNote(accepted)
    \/ \E accepted \in BOOLEAN : AddData(accepted)
    \/ \E accepted \in BOOLEAN : FormatCells(accepted)
    \/ \E accepted \in BOOLEAN : StyleCells(accepted)
    \/ \E authorized, accepted \in BOOLEAN : ImportCSV(authorized, accepted)
    \/ \E authorized, accepted \in BOOLEAN :
          \E io \in IOOutcomes : \E kept \in 0..MaxRecords :
              ExportCSV(authorized, accepted, io, kept)

CodecSpec == CodecInit /\ [][CodecNext]_vars

----------------------------------------------------------------------------
(* Properties *)

Range(seq) == { seq[i] : i \in 1..Len(seq) }

\* no permission bit for group or others
OwnerOnly(mode) == mode % 64 = 0

Ended == pc \in { "exited", "crashed" }

\* C1: whenever requestTokenFromWeb has returned (code, error or
\* cancellation), server.Shutdown has been called and the callback listener
\* is not listening: its port is released.
C1_ListenerClosedOnReturn ==
    flowDone => inShutdown /\ srv # "listening"

\* the flow returned on the error branch after the listener had been bound
\* and a redirect without code had arrived
C1_Witness ==
    flowDone /\ outcomes = { "error" } /\ "listen" \in netCalls /\ arrived # << >>

\* C2: one run of the wait takes one outcome; config.Exchange is called at
\* most once and only after the outcome "code"; after "error" or "cancelled"
\* it is not called.
C2_OneOutcomeOneExchange ==
    /\ Cardinality(outcomes) <= 1
    /\ exchangeCount <= 1
    /\ pc = "exchange" \/ exchangeCount = 1 => outcomes = { "code" }
    /\ outcomes \cap { "error", "cancelled" } # { } => exchangeCount = 0

\* the exchange ran after a code was taken although an error was sent too
C2_Witness ==
    exchangeCount = 1 /\ outcomes = { "code" } /\ errChan # << >>

\* the steps the state machine of the specification allows
ClaimedEdges ==
    { << "NoToken", "AwaitingUserAuthorization" >>,
      << "AwaitingUserAuthorization", "CodeReceived" >>,
      << "CodeReceived", "TokenExchanged" >>,
      << "AwaitingUserAuthorization", "Cancelled" >>,
      << "AwaitingUserAuthorization", "Failed" >> }

\* a GetClient call or a process begins, or requestTokenFromWeb is entered
FlowBoundary ==
    \/ authState = "Idle" /\ authState' = "NoToken"
    \/ authState' = "Idle" /\ (pc = "creds" \/ invocation' # invocation)

\* the flow moves along the given edges only, and neither the wait nor the
\* exchange is entered in a terminal state
MovesAlong(edges) ==
    /\ authState' # authState =>
           << authState, authState' >> \in edges \/ FlowBoundary
    /\ pc' \in { "select", "exchange" } /\ pc' # pc =>
           authState' \in { "AwaitingUserAuthorization", "CodeReceived" }

\* C3, as claimed: the flow only moves NoToken -> Awaiting -> CodeReceived ->
\* TokenExchanged or NoToken -> Awaiting -> Cancelled/Failed, the last three
\* states are terminal, and no step is re-entered after a failure.
C3_Original == [][MovesAlong(ClaimedEdges)]_vars

\* C3, amended: as claimed, with the step CodeReceived -> Failed that a
\* failed token exchange takes.
C3_FlowStateMachine ==
    [][MovesAlong(ClaimedEdges \cup { << "CodeReceived", "Failed" >> })]_vars

\* the exchange was attempted and the flow failed
C3_Witness == authState = "Failed" /\ exchangeCount = 1

\* C4: in every state where GetClient has returned a token obtained through
\* the web flow, the token file holds that token.
C4_Claim ==
    Running /\ client = "ok" /\ tokenSource = "web" =>
        tokenFile.state = "valid" /\ tokenFile.tok = token

\* C5: after a successful saveToken the token file is accessible to its
\* owner only, whatever was on disk before.
C5_Claim == lastSave = "ok" => OwnerOnly(tokenFile.mode)

\* loadToken calls of this process that found no decodable token file
FailedLoads == { i \in 1..Len(loads) : loads[i] # "valid" }

\* C6: requestTokenFromWeb is called exactly for the loadToken calls that
\* found the token file absent or undecodable; when every load found a
\* decodable file no listener was started, no prompt printed and the token
\* file is as it was; a run that follows the deletion of the token file
\* finds it absent and performs the flow.
C6_FlowIffLoadFails ==
    /\ flowRuns = Cardinality(FailedLoads)
    /\ Running /\ loads # << >> /\ FailedLoads = { } =>
           /\ srv = "none"
           /\ "listen" \notin netCalls
           /\ Range(stdout) \cap Range(PromptLines) = { }
           /\ tokenFile = tokenAtStart
    /\ afterDelete /\ loads # << >> => loads[1] = "absent" /\ flowRuns >= 1

\* the token file was deleted after a run, and the next run found it absent,
\* printed the prompt and started the listener
C6_Witness ==
    /\ afterDelete
    /\ invocation = 2
    /\ flowRuns = 1
    /\ "listen" \in netCalls
    /\ Range(PromptLines) \subseteq Range(stdout)

\* what a run that could not read the credentials file shows and has done
CredentialFailure ==
    /\ exitCode = 1
    /\ Mentions(stderr, "credentials.json")
    /\ Mentions(stderr, "See README.md for setup instructions")
    /\ ~tokenRead
    /\ srv = "none"
    /\ netCalls = { }

\* C7, as claimed: with the credentials file missing or unreadable every
\* command fails with an error that names the file and carries guidance,
\* before the token file is read, a listener started or a remote call made.
C7_Original ==
    credFile = "missing" =>
        /\ ~tokenRead /\ srv = "none" /\ netCalls = { }
        /\ pc = "exited" => CredentialFailure

\* C7, amended: as claimed, for every command but import-csv given a CSV file
\* that cannot be opened or parsed, which fails earlier with the CSV error.
C7_CredentialsFailFirst ==
    credFile = "missing" =>
        /\ ~tokenRead /\ srv = "none" /\ netCalls = { }
        /\ pc = "exited" /\ ~(cmd.name = "import-csv" /\ ~cmd.csvOk) =>
               CredentialFailure

\* import-csv with a readable CSV file failed on the credentials file
C7_Witness ==
    /\ credFile = "missing"
    /\ pc = "exited"
    /\ cmd.name = "import-csv"
    /\ cmd.csvOk
    /\ stderr = ErrCredRead

\* C8: a command that ends with status zero has written exactly one JSON
\* payload and nothing else to standard output.
C8_Claim ==
    pc = "exited" /\ exitCode = 0 => stdout = << JSONPayload >>

\* C9: a command that fails has printed a single line to standard error and
\* no JSON payload to standard output, and exits non-zero.
C9_Claim ==
    Ended /\ exitCode # 0 =>
        /\ Len(stderr) = 1
        /\ JSONPayload \notin Range(stdout)

\* C10: add-data given malformed JSON attempts no network call (listener,
\* token exchange, spreadsheet request) and exits non-zero with an error
\* that mentions JSON, whatever the credential and token files hold.
C10_Claim ==
    cmd.name = "add-data" /\ ~cmd.jsonOk =>
        /\ netCalls = { }
        /\ Ended => exitCode # 0 /\ Mentions(stderr, "invalid JSON values:")

----------------------------------------------------------------------------
(* Properties of the codecs *)

\* the text is [A-Z]+[0-9]+ with k letters
IsA1With(text, k) ==
    /\ k \in 1..(Len(text) - 1)
    /\ \A h \in 1..k : IsUpper(text[h])
    /\ \A h \in (k + 1)..Len(text) : IsDigit(text[h])

MatchesA1(text) == \E k \in 1..Len(text) : IsA1With(text, k)

\* the value of a numeral by the weights of its positions, the last
\* position weighing one
RECURSIVE Positional(_, _, _)
Positional(numeral, base, value) ==
    IF Len(numeral) = 0
    THEN 0
    ELSE value[numeral[Len(numeral)]]
             + base * Positional(SubSeq(numeral, 1, Len(numeral) - 1), base, value)

Bijective26(letters) ==
    Positional(letters, 26, [ c \in Range(UpperLetters) |-> LetterValue(c) ])

Decimal(digits) ==
    Positional(digits, 10, [ c \in Range(DecimalDigits) |-> DigitValue(c) ])

\* C11: ParseCell (A1ToGrid) returns an error for every text that is not
\* [A-Z]+[0-9]+ (empty, letters only, digits only, digits before letters,
\* small letters, a signed or otherwise noisy digit run): it never returns
\* coordinates for such a text.
C11_Claim ==
    res.kind = "A1ToGrid" /\ ~MatchesA1(arg.text) => res.out.err

\* C12: for every text [A-Z]+[0-9]+, A1ToGrid returns no error, the column
\* is the bijective base-26 value of the letters minus one and the row the
\* decimal value of the digits minus one: B5 is (1, 4), A1 is (0, 0), AA10
\* is (26, 9).
C12_CellDecoding ==
    res.kind = "A1ToGrid" /\ MatchesA1(arg.text) =>
        LET k == CHOOSE h \in 1..Len(arg.text) : IsA1With(arg.text, h)
        IN  /\ ~res.out.err
            /\ res.out.col = Bijective26(SubSeq(arg.text, 1, k)) - 1
            /\ res.out.row = Decimal(SubSeq(arg.text, k + 1, Len(arg.text))) - 1
            /\ arg.text = << "B", "5" >> => res.out.col = 1 /\ res.out.row = 4
            /\ arg.text = << "A", "1" >> => res.out.col = 0 /\ res.out.row = 0
            /\ arg.text = << "A", "A", "1", "0" >> => res.out.col = 26 /\ res.out.row = 9

\* AA10 was decoded to column 26, row 9
C12_Witness ==
    /\ res.kind = "A1ToGrid"
    /\ arg.text = << "A", "A", "1", "0" >>
    /\ res.out = [ col |-> 26, row |-> 9, err |-> FALSE ]

NonNegativeRange(r) ==
    /\ r.StartRowIndex >= 0
    /\ r.StartColumnIndex >= 0
    /\ r.EndRowIndex >= 1
    /\ r.EndColumnIndex >= 1

\* C13: every cell reference A1ToGrid and ParseRange return without error
\* has column >= 0 and row >= 0, so every grid range format-cells,
\* style-cells and add-note send has start indices >= 0 and end indices
\* >= 1.
C13_Claim ==
    /\ res.kind = "A1ToGrid" /\ ~res.out.err =>
           res.out.col >= 0 /\ res.out.row >= 0
    /\ res.kind = "ParseRange" /\ ~res.out.err =>
           /\ res.out.startCol >= 0 /\ res.out.startRow >= 0
           /\ res.out.endCol >= 0 /\ res.out.endRow >= 0
    /\ res.kind \in { "add-note", "format-cells", "style-cells" } =>
           \A q \in 1..Len(res.requests) : NonNegativeRange(res.requests[q].Range)

HasColon(text) == \E k \in 1..Len(text) : text[k] = ":"

\* what is before the first ':' of a text, and what is after it
BeforeColon(text) ==
    SubSeq(text, 1, (CHOOSE k \in 1..Len(text) :
                         text[k] = ":" /\ \A h \in 1..(k - 1) : text[h] # ":") - 1)

AfterColon(text) == SubSeq(text, Len(BeforeColon(text)) + 2, Len(text))

\* C14: ParseRange splits its text on a single ':'.  Without a separator
\* the end is the start; with one, both halves are parsed independently
\* and ParseRange fails exactly when a half fails, returning no coordinates
\* then.  A1:B10 is (0,0)-(1,9), C3 is (2,2)-(2,2); a start beyond the end
\* is not refused.
C14_Claim ==
    res.kind = "ParseRange" =>
        LET start == A1ToGrid(IF HasColon(arg.text) THEN BeforeColon(arg.text)
                              ELSE arg.text)
            end   == IF HasColon(arg.text) THEN A1ToGrid(AfterColon(arg.text))
                     ELSE start
        IN  /\ res.out.err = (start.err \/ end.err)
            /\ res.out.err =>
                   /\ res.out.startCol = 0 /\ res.out.startRow = 0
                   /\ res.out.endCol = 0 /\ res.out.endRow = 0
            /\ ~res.out.err =>
                   /\ res.out.startCol = start.col /\ res.out.startRow = start.row
                   /\ res.out.endCol = end.col /\ res.out.endRow = end.row

\* the letters of a 0-indexed column: the encoding A1ToGrid's column loop
\* decodes (bijective base 26)
RECURSIVE ColumnLetters(_)
ColumnLetters(col) ==
    IF col < 0
    THEN << >>
    ELSE ColumnLetters((col \div 26) - 1) \o << UpperLetters[(col % 26) + 1] >>

\* C15: every run of one to three letters A..Z, decoded by A1ToGrid and
\* encoded back, gives the run again (A -> 0 -> A, Z -> 25 -> Z,
\* AA -> 26 -> AA): two different runs never decode to the same column.
C15_ColumnRoundTrip ==
    arg.kind = "column" /\ res.kind = "A1ToGrid" =>
        /\ ~res.out.err
        /\ ColumnLetters(res.out.col) = SubSeq(arg.text, 1, Len(arg.text) - 1)
        /\ arg.text = << "A", "1" >> => res.out.col = 0
        /\ arg.text = << "Z", "1" >> => res.out.col = 25
        /\ arg.text = << "A", "A", "1" >> => res.out.col = 26

\* the run ZZZ was decoded to the last column of three letters
C15_Witness ==
    /\ arg.kind = "column"
    /\ arg.text = << "Z", "Z", "Z", "1" >>
    /\ res.kind = "A1ToGrid"
    /\ res.out.col = 18277

\* the text is an optional '#' and six hexadecimal digits
WellFormedColor(text) ==
    LET hex == IF Len(text) > 0 /\ text[1] = "#" THEN Tail(text) ELSE text
    IN  /\ Len(hex) = 6
        /\ \A k \in 1..6 : IsHexDigit(hex[k])

\* C16: ParseColor returns a colour exactly when, one leading '#' at most
\* removed, six characters remain and all six are hexadecimal digits of
\* either case; a wrong length or any other character, a sign inside a
\* channel included, gives no value.
C16_Claim ==
    res.kind = "ParseColor" => (~res.out.nil <=> WellFormedColor(arg.text))

IsByteOver255(channel) == channel.den = 255 /\ channel.num \in 0..255

\* the value of the two hexadecimal digits at positions k and k + 1
PairValue(hex, k) == 16 * HexValue(hex[k]) + HexValue(hex[k + 1])

\* C17: every colour ParseColor returns has each channel equal to a byte
\* 0..255 divided by 255, hence within [0, 1], the bytes being the values
\* of characters 1-2, 3-4 and 5-6: #FF0000 is (1, 0, 0), 00ff00 is (0, 1, 0).
C17_Claim ==
    res.kind = "ParseColor" /\ ~res.out.nil =>
        LET hex == IF arg.text[1] = "#" THEN Tail(arg.text) ELSE arg.text
        IN  /\ IsByteOver255(res.out.red)
            /\ IsByteOver255(res.out.green)
            /\ IsByteOver255(res.out.blue)
            /\ \A k \in 1..6 : IsHexDigit(hex[k])
            /\ res.out.red.num = PairValue(hex, 1)
            /\ res.out.green.num = PairValue(hex, 3)
            /\ res.out.blue.num = PairValue(hex, 5)
            /\ arg.text = << "#", "F", "F", "0", "0", "0", "0" >> =>
                   /\ res.out.red.num = 255
                   /\ res.out.green.num = 0
                   /\ res.out.blue.num = 0
            /\ arg.text = << "0", "0", "f", "f", "0", "0" >> =>
                   /\ res.out.red.num = 0
                   /\ res.out.green.num = 255
                   /\ res.out.blue.num = 0

\* a colour flag that is given and is not a colour
Malformed(color) == color # << >> /\ ~WellFormedColor(color)

\* C18: style-cells given a malformed colour fails: it returns an error
\* (non-zero exit) and sends no batch update.
C18_Claim ==
    /\ res.kind = "style-cells"
    /\ Malformed(arg.flags.bgColor) \/ Malformed(arg.flags.fontColor)
    => res.err /\ res.requests = << >>

\* C19: every internal failure during a command makes the command fail
\* (error returned, non-zero exit): also a failed move into the destination
\* folder in create, and a failed save of the token after a successful
\* authorization.
C19_Claim ==
    /\ Ended
    /\ \/ lastSave = "failed"
       \/ Mentions(stderr, "Warning: unable to move to folder:")
       \/ Mentions(stderr, "Warning: unable to save token:")
    => exitCode # 0

\* the records of a file do not all have the same number of fields
Ragged(records) ==
    \E i, j \in 1..Len(records) : Len(records[i]) # Len(records[j])

\* C20: for a CSV file that opens and whose records all have the same
\* number of fields, import-csv sends a matrix with one row per record in
\* file order and one value per field in field order, and the row count it
\* prints is the number of records; a file that does not open or whose
\* records differ in length is refused before authentication and before any
\* request.
C20_ImportMatrix ==
    res.kind = "import-csv" =>
        LET records == arg.file.records
        IN  IF ~arg.file.opens \/ Ragged(records)
            THEN /\ res.err
                 /\ ~res.authCalled
                 /\ res.requests = << >>
                 /\ res.printed = << >>
            ELSE /\ \A q \in 1..Len(res.requests) :
                        LET values == res.requests[q].Values
                        IN  /\ Len(values) = Len(records)
                            /\ \A i \in 1..Len(records) :
                                   /\ Len(values[i]) = Len(records[i])
                                   /\ \A j \in 1..Len(records[i]) :
                                          values[i][j] = records[i][j]
                 /\ \A p \in 1..Len(res.printed) :
                        res.printed[p].rows = Len(records)
                 /\ ~res.err => Len(res.requests) = 1 /\ Len(res.printed) = 1

\* a file of two records (x, y) and (y, x) was imported and two rows were
\* reported
C20_Witness ==
    /\ res.kind = "import-csv"
    /\ arg.file.records = << << "x", "y" >>, << "y", "x" >> >>
    /\ ~res.err
    /\ Len(res.requests) = 1
    /\ res.requests[1].Values = << << "x", "y" >>, << "y", "x" >> >>
    /\ res.printed = << [ status |-> "success", rows |-> 2 ] >>

----------------------------------------------------------------------------
(* Properties of the handlers *)

\* C21: add-data sends its values as USER_ENTERED unless --formula is
\* false, and then as RAW; import-csv always sends USER_ENTERED, whatever
\* it is given.
C21_ValueInputMode ==
    /\ res.kind = "add-data" =>
           \A q \in 1..Len(res.requests) :
               res.requests[q].ValueInputOption =
                   IF arg.formula THEN "USER_ENTERED" ELSE "RAW"
    /\ res.kind = "import-csv" =>
           \A q \in 1..Len(res.requests) :
               res.requests[q].ValueInputOption = "USER_ENTERED"

\* add-data --formula=false sent its values as RAW and succeeded
C21_Witness ==
    /\ res.kind = "add-data"
    /\ ~arg.formula
    /\ ~res.err
    /\ Len(res.requests) = 1
    /\ res.requests[1].ValueInputOption = "RAW"

----------------------------------------------------------------------------
(* Properties of the authorization flow, continued *)

\* C22: once the select has taken an outcome, the flow goes on past
\* server.Shutdown in finitely many steps and no callback handler is left
\* blocked at its channel send (the process ending ends them too), however
\* many redirects reached the listener before it closed.
C22_Claim ==
    (pc = "shutdown") ~>
        /\ pc \notin { "shutdown", "shutwait" }
        /\ waitingCode + waitingErr = 0 \/ ~Running

\* C23: with no cancellation, when the first redirect that reaches the
\* listener carries a code, the select takes the code and the flow goes on
\* to the token exchange, whatever the order in which the handler
\* goroutines and the main goroutine run.
C23_Claim ==
    /\ arrived # << >>
    /\ Head(arrived)
    /\ ~ctxDone
    /\ outcomes # { }
    => outcomes = { "code" }

\* C24: when authentication does not end in a successful token exchange
\* (callback without code, listener start failure, cancellation, failed
\* exchange), the token file is as the process found it; the process
\* changes the token file only after an exchange that succeeded.
C24_TokenFileFrame ==
    pc # "idle" /\ ~deleted =>
        /\ authState \in { "Failed", "Cancelled" } => tokenFile = tokenAtStart
        /\ tokenFile # tokenAtStart =>
               /\ lastSave # "none"
               /\ exchangeCount >= 1
               /\ "exchange" \in netCalls

\* a code was received, the exchange failed, the command exited with an
\* error and the undecodable token file it had found is still there
C24_Witness ==
    /\ Ended
    /\ exitCode = 1
    /\ authState = "Failed"
    /\ outcomes = { "code" }
    /\ exchangeCount = 1
    /\ tokenAtStart.state = "invalid"
    /\ tokenFile = tokenAtStart
    /\ ~deleted

\* C25: if the callback listener cannot start, the flow fails with the
\* listener-start error (unless it is cancelled first), no redirect was
\* waited for or accepted, no token exchange is attempted and the token
\* file is not written.
C25_ListenerStartFailure ==
    srv \in { "sendErr", "failed" } =>
        /\ arrived = << >>
        /\ "listen" \notin netCalls
        /\ exchangeCount = 0
        /\ "exchange" \notin netCalls
        /\ lastSave = "none"
        /\ ~deleted => tokenFile = tokenAtStart
        /\ outcomes # { } =>
               \/ outcomes = { "error" } /\ authErr = ErrListen
               \/ outcomes = { "cancelled" } /\ ctxDone
        /\ Ended /\ outcomes = { "error" } =>
               /\ exitCode = 1
               /\ Mentions(stderr, "failed to start server:")

\* the port was taken: the command exited with the listener-start error,
\* nothing was cancelled
C25_Witness ==
    /\ srv = "failed"
    /\ Ended
    /\ ~ctxDone
    /\ outcomes = { "error" }
    /\ exitCode = 1
    /\ Mentions(stderr, "failed to start server:")
    /\ exchangeCount = 0

\* C26: within one command invocation the authorization-code flow
\* (registration of the callback handler, listener start) runs at most once,
\* also for create --folder, which calls GetClient twice, and also when
\* saving the token after the first flow failed.
C26_Claim == flowRuns <= 1


\* C27: format-cells, style-cells, rename-sheet and add-note send their
\* batch-update only after the sheet lookup found the sheet and, where the
\* command takes a cell or range reference, after the reference parsed; if
\* the sheet is not found or the reference does not parse, the command fails
\* and never sends a batch-update.
C27_BatchAfterLookupAndParse ==
    /\ "batch" \in netCalls =>
           /\ cmd.name \in BatchCommands
           /\ "lookup" \in netCalls
           /\ ~Mentions(stderr, "' not found")
           /\ ~Mentions(stderr, "unable to retrieve spreadsheet:")
           /\ cmd.name \in RefCommands => cmd.refOk
    /\ cmd.name \in BatchCommands /\ Mentions(stderr, "' not found") =>
           /\ "batch" \notin netCalls
           /\ Ended /\ exitCode = 1
    /\ cmd.name \in RefCommands /\ ~cmd.refOk =>
           /\ "batch" \notin netCalls
           /\ Ended => exitCode # 0

\* style-cells found its sheet, parsed its range, sent the batch-update
C27_Witness ==
    /\ cmd.name = "style-cells"
    /\ "lookup" \in netCalls
    /\ "batch" \in netCalls
    /\ Ended
    /\ exitCode = 0

\* C29: import-csv reads and parses the CSV file before it authenticates;
\* when that fails the command fails without reading the credentials or the
\* token file, without starting a listener and without any remote call.
C29_CSVBeforeAuth ==
    pc # "idle" /\ cmd.name = "import-csv" /\ ~cmd.csvOk =>
        /\ pc \in { "readcsv", "exited" }
        /\ ~tokenRead
        /\ loads = << >>
        /\ netCalls = { }
        /\ flowRuns = 0
        /\ srv = "none"
        /\ Ended =>
               /\ exitCode = 1
               /\ \/ Mentions(stderr, "unable to open CSV file:")
                  \/ Mentions(stderr, "unable to read CSV:")

\* import-csv of a file that opens but does not parse has failed
C29_Witness ==
    /\ cmd.name = "import-csv"
    /\ ~cmd.csvOk
    /\ Ended
    /\ exitCode = 1
    /\ Mentions(stderr, "unable to read CSV:")
    /\ netCalls = { }


\* the cells a grid range addresses: its end indices are exclusive
Cells(range) ==
    (range.StartRowIndex .. range.EndRowIndex - 1)
        \X (range.StartColumnIndex .. range.EndColumnIndex - 1)

\* C28: the grid range that format-cells and style-cells send is rows
\* [startRow, endRow + 1) and columns [startCol, endCol + 1) of the parsed
\* range, and the one of add-note is [row, row + 1) x [col, col + 1): a
\* single cell addresses exactly one cell, and a range whose start is not
\* after its end addresses (endRow - startRow + 1) * (endCol - startCol + 1)
\* cells.
C28_GridRange ==
    /\ res.kind \in { "format-cells", "style-cells" } /\ res.requests # << >> =>
           LET r == ParseRange(arg.text)
               g == res.requests[1].Range
           IN  /\ g.StartRowIndex = r.startRow
               /\ g.EndRowIndex = r.endRow + 1
               /\ g.StartColumnIndex = r.startCol
               /\ g.EndColumnIndex = r.endCol + 1
               /\ Cells(g) = (r.startRow .. r.endRow) \X (r.startCol .. r.endCol)
               /\ r.startRow <= r.endRow /\ r.startCol <= r.endCol =>
                      Cardinality(Cells(g)) =
                          (r.endRow - r.startRow + 1) * (r.endCol - r.startCol + 1)
               /\ (\A i \in 1..Len(arg.text) : arg.text[i] # ":") =>
                      Cardinality(Cells(g)) = 1
    /\ res.kind = "add-note" /\ res.requests # << >> =>
           LET cell == A1ToGrid(arg.text)
               g    == res.requests[1].Range
           IN  /\ g.StartRowIndex = cell.row
               /\ g.EndRowIndex = cell.row + 1
               /\ g.StartColumnIndex = cell.col
               /\ g.EndColumnIndex = cell.col + 1
               /\ Cells(g) = { << cell.row, cell.col >> }

\* format-cells of A1:B10 sent rows [0, 10) and columns [0, 2): 20 cells
C28_Witness ==
    /\ res.kind = "format-cells"
    /\ arg.text = << "A", "1", ":", "B", "1", "0" >>
    /\ Len(res.requests) = 1
    /\ res.requests[1].Range =
           [ StartRowIndex |-> 0, EndRowIndex |-> 10,
             StartColumnIndex |-> 0, EndColumnIndex |-> 2 ]
    /\ Cardinality(Cells(res.requests[1].Range)) = 20


\* export-csv leaves the output file alone unless authentication and the
\* remote read both succeeded
ExportFrame ==
    res.kind = "export-csv" =>
        /\ ~res.authorized \/ res.requests = << >> => res.file = arg.existing
        /\ res.file # arg.existing => res.authorized /\ res.requests # << >>

\* after a successful export-csv the file holds the returned rows
ExportContent ==
    res.kind = "export-csv" /\ ~res.err =>
        /\ res.printed # << >>
        /\ res.file.exists
        /\ Len(res.file.records) = Len(arg.rows)
        /\ \A i \in 1..Len(arg.rows) : res.file.records[i] = arg.rows[i]

\* C30: export-csv creates or truncates the output file only after
\* authentication and the remote read succeeded, an existing file is
\* unchanged when either fails, and on success the file holds one CSV
\* record per returned row, in order.
C30_Claim == ExportFrame /\ ExportContent

====
